---- MODULE Spec2Model ----
(***************************************************************************)
(* cfdata: the Contentful test-data tool.                                  *)
(*                                                                         *)
(* The model follows one workspace of the content service through a        *)
(* bounded number of command-line invocations of cfdata, one after the     *)
(* other.  A state is the remote workspace plus the locals of the running  *)
(* workflow, stopped at an await with its requests in flight.  An action   *)
(* is the arrival of one response followed by the JavaScript that runs up  *)
(* to the next await (the code between two awaits is atomic in Node).      *)
(*                                                                         *)
(* The content service itself is not part of the repository.  It is        *)
(* modelled by Accepts/Effect at the granularity of one request: a request *)
(* takes effect atomically when it is answered, a bulk action is atomic    *)
(* from the caller's point of view, versions are checked and incremented,  *)
(* a published item cannot be deleted, an unprocessed asset cannot be      *)
(* published, and any request may also be rejected for reasons of the      *)
(* service's own (RequestRejected).                                        *)
(***************************************************************************)
EXTENDS Integers, Sequences, FiniteSets, TLC

VARIABLES
    ws,                 \* the workspace: ws[id] is the item with sys.id = id
    run,                \* number of cfdata invocations started so far
    argv,               \* the command line of the current invocation
    options,            \* the options object commander hands to the action
    pc,                 \* the await the workflow is suspended at
    i,                  \* setupCommand's loop counter
    imageAsset,         \* createTestEntry's local
    addressEntry,       \* createTestEntry's local
    allCreatedItems,    \* setupCommand's local
    generatedEntries,   \* teardownCommand's local
    generatedAssets,    \* teardownCommand's local
    pending,            \* the requests in flight, in the order they were issued
    results,            \* the values the promises of the current join resolved to
    outcome,            \* "idle", "running", "finished" or "failed"
    error,              \* the rejection the workflow ended with
    sent,               \* per operation, the number of requests issued in this run
    rejected,           \* the rejections the service answered in this run, in order
    order               \* the order in which the service lists a collection

vars == <<ws, run, argv, options, pc, i, imageAsset, addressEntry,
          allCreatedItems, generatedEntries, generatedAssets, pending,
          results, outcome, error, sent, rejected, order>>

----------------------------------------------------------------------------
(* Bounds of the model.                                                    *)

\* cfdata invocations in one behaviour
MaxRuns == 2
\* the service answers one of the first MaxWindow requests in flight
MaxWindow == 2
\* entries carrying DEFAULT_TAG that the workspace may hold before the first run
PriorEntries == 90

----------------------------------------------------------------------------
(* Program constants.                                                      *)

DEFAULT_TAG == "generated"
DEFAULT_LOCALE == "en-US"
\* for (var i = 0; i < 10; i++)
TripleCount == 10
\* getMany is called without limit or skip: one page of the service's default size
PageLimit == 100

\* strings a user may give after -t/--tag and -l/--locale
TagArgs == {"demo"}
LocaleArgs == {"en-US"}
\* the option is absent from the command line
NoOpt == "<absent>"
\* the JavaScript value true (a boolean, not a string)
FlagTrue == "<true>"
NoItem == [id |-> 0, version |-> 0, type |-> "none", tags |-> <<>>]
NoError == [op |-> "none", id |-> 0]

Ops == {"asset.create", "asset.update", "entry.create", "asset.process",
        "bulk.publish", "entry.getMany", "asset.getMany", "bulk.unpublish",
        "entry.delete", "asset.delete"}

----------------------------------------------------------------------------
(* Helpers on sequences.                                                   *)

Min(a, b) == IF a < b THEN a ELSE b

Range(s) == {s[k] : k \in 1..Len(s)}

\* s without its k-th element
Without(s, k) == [j \in 1..(Len(s) - 1) |-> IF j < k THEN s[j] ELSE s[j + 1]]

Reverse(s) == [k \in 1..Len(s) |-> s[Len(s) + 1 - k]]

\* the first n elements of s, as it would be one off
TakeOneMore(s, n) == [k \in 1..Min(n + 1, Len(s)) |-> s[k]]

\* the first n elements of s
Take(s, n) == [k \in 1..Min(n, Len(s)) |-> s[k]]

----------------------------------------------------------------------------
(* The content service: items, requests, and what a request does.          *)

\* an asset or entry as the program holds it: sys.id, sys.version, sys.type, metadata.tags
Snapshot(w, id) ==
    [id |-> id, version |-> w[id].version, type |-> w[id].kind, tags |-> w[id].tags]

BaseReq ==
    [op |-> "none", idx |-> 1, id |-> 0, version |-> 0, ctype |-> "none",
     tags |-> <<>>, address |-> 0, mainImage |-> 0, items |-> <<>>, type |-> "none"]

NewItem(kind, ctype, tags, address, mainImage, n) ==
    [kind |-> kind, ctype |-> ctype, tags |-> tags, version |-> 1, exists |-> TRUE,
     published |-> FALSE, processed |-> FALSE, address |-> address,
     mainImage |-> mainImage, run |-> n]

Live(w, id) == id \in 1..Len(w) /\ w[id].exists

HasTag(item, tag) == \E k \in 1..Len(item.tags) : item.tags[k] = tag

\* the elements of a set of ids as a sequence, ascending
Ascending(S) ==
    [j \in 1..Cardinality(S) |-> CHOOSE x \in S : Cardinality({y \in S : y <= x}) = j]

\* the ids of the live items of a kind carrying tag, ascending
Tagged(w, kind, tag) ==
    Ascending({id \in 1..Len(w) : w[id].exists /\ w[id].kind = kind /\ HasTag(w[id], tag)})

\* the lookup as it would be if it followed the pages to the end
PageUnlimited(w, kind, tag, ord) ==
    IF ord = "asc" THEN Tagged(w, kind, tag) ELSE Reverse(Tagged(w, kind, tag))

\* result.items of a getMany without limit: the first page, in the service's order
Page(w, kind, tag, ord) ==
    Take(IF ord = "asc" THEN Tagged(w, kind, tag) ELSE Reverse(Tagged(w, kind, tag)),
         PageLimit)

\* whether the service can carry the request out on workspace w
Accepts(w, r) ==
    CASE r.op = "asset.update" ->
            Live(w, r.id) /\ w[r.id].kind = "Asset" /\ w[r.id].version = r.version
      [] r.op = "asset.process" ->
            Live(w, r.id) /\ w[r.id].kind = "Asset" /\ w[r.id].version = r.version
      [] r.op = "bulk.publish" ->
            /\ Len(r.items) > 0
            /\ ~ \E k \in 1..Len(r.items) :
                  LET it == r.items[k] IN
                  ~ /\ Live(w, it.id)
                    /\ w[it.id].kind = it.type
                    /\ w[it.id].version = it.version
                    /\ (it.type = "Asset" => w[it.id].processed)
      [] r.op = "bulk.unpublish" ->
            /\ Len(r.items) > 0
            /\ ~ \E k \in 1..Len(r.items) :
                  ~ (Live(w, r.items[k]) /\ w[r.items[k]].kind = r.type)
      [] r.op = "entry.delete" ->
            Live(w, r.id) /\ w[r.id].kind = "Entry" /\ ~w[r.id].published
      [] r.op = "asset.delete" ->
            Live(w, r.id) /\ w[r.id].kind = "Asset" /\ ~w[r.id].published
      [] OTHER -> TRUE

\* the workspace after the service has carried out request r (n: the run it belongs to)
Effect(w, r, n) ==
    CASE r.op = "asset.create" ->
            Append(w, NewItem("Asset", "image", r.tags, 0, 0, n))
      [] r.op = "entry.create" ->
            Append(w, NewItem("Entry", r.ctype, r.tags, r.address, r.mainImage, n))
      [] r.op = "asset.update" ->
            [w EXCEPT ![r.id].tags = r.tags, ![r.id].version = @ + 1]
      [] r.op = "asset.process" ->
            [w EXCEPT ![r.id].processed = TRUE, ![r.id].version = @ + 1]
      [] r.op = "bulk.publish" ->
            [id \in 1..Len(w) |->
                IF \E k \in 1..Len(r.items) : r.items[k].id = id
                THEN [w[id] EXCEPT !.published = TRUE, !.version = @ + 1]
                ELSE w[id]]
      [] r.op = "bulk.unpublish" ->
            [id \in 1..Len(w) |->
                IF (\E k \in 1..Len(r.items) : r.items[k] = id) /\ w[id].published
                THEN [w[id] EXCEPT !.published = FALSE, !.version = @ + 1]
                ELSE w[id]]
      [] r.op \in {"entry.delete", "asset.delete"} ->
            [w EXCEPT ![r.id].exists = FALSE]
      [] OTHER -> w

\* the id a create request's response carries
CreatedId(w) == Len(w) + 1

----------------------------------------------------------------------------
(* The access module: each function as the request(s) it issues.           *)

\* tagAsset as it would be if it pushed the tag onto the asset's tag list
tagAssetAppending(asset, tag) ==
    <<[BaseReq EXCEPT !.op = "asset.update", !.id = asset.id,
                      !.version = asset.version, !.tags = asset.tags \o <<tag>>]>>

\* tagAsset: asset.metadata = { tags: [tag] }, then client.asset.update
tagAsset(asset, tag) ==
    <<[BaseReq EXCEPT !.op = "asset.update", !.id = asset.id,
                      !.version = asset.version, !.tags = <<tag>>]>>

\* createAssetFromPicsum as it would be if the create call carried the tag
createAssetFromPicsumTagged(locale, tag) ==
    <<[BaseReq EXCEPT !.op = "asset.create", !.ctype = "image", !.tags = <<tag>>]>>

\* createAssetFromPicsum up to its first await: client.asset.create without tags
createAssetFromPicsum(locale, tag) ==
    <<[BaseReq EXCEPT !.op = "asset.create", !.ctype = "image"]>>

\* createEntry as it would be if the two link fields were mixed up
createEntrySwappedLinks(contentTypeId, address, mainImage, tag) ==
    <<[BaseReq EXCEPT !.op = "entry.create", !.ctype = contentTypeId,
                      !.tags = <<tag>>, !.address = mainImage,
                      !.mainImage = address]>>

\* createEntry: the tag goes into the create call itself
createEntry(contentTypeId, address, mainImage, tag) ==
    <<[BaseReq EXCEPT !.op = "entry.create", !.ctype = contentTypeId,
                      !.tags = <<tag>>, !.address = address,
                      !.mainImage = mainImage]>>

\* processAssets as it would be with a loop that awaits each asset in turn:
\* only the first request is issued at first
processAssetsOneByOne(assets) ==
    [k \in 1..Min(1, Len(assets)) |->
        [BaseReq EXCEPT !.op = "asset.process", !.idx = k, !.id = assets[k].id,
                        !.version = assets[k].version]]

\* processAssets: one processForAllLocales per asset, all issued by the map
processAssets(assets) ==
    [k \in 1..Len(assets) |->
        [BaseReq EXCEPT !.op = "asset.process", !.idx = k, !.id = assets[k].id,
                        !.version = assets[k].version]]

\* publishItems: nothing for an empty array, else one bulk publish of id+version+type
publishItems(items) ==
    IF Len(items) = 0 THEN <<>>
    ELSE <<[BaseReq EXCEPT !.op = "bulk.publish",
               !.items = [k \in 1..Len(items) |->
                            [id |-> items[k].id, version |-> items[k].version,
                             type |-> items[k].type]]]>>

\* unpublishItems as it would be without its `if (items.length === 0) return`
unpublishItemsUnguarded(items, type) ==
    <<[BaseReq EXCEPT !.op = "bulk.unpublish", !.items = items, !.type = type]>>

\* unpublishItems: nothing for an empty array, else one bulk unpublish of the ids
unpublishItems(items, type) ==
    IF Len(items) = 0 THEN <<>>
    ELSE <<[BaseReq EXCEPT !.op = "bulk.unpublish", !.items = items, !.type = type]>>

unpublishEntries(ids) == unpublishItems(ids, "Entry")

unpublishAssets(ids) == unpublishItems(ids, "Asset")

\* deleteEntries: one client.entry.delete per id, all issued by the map
deleteEntries(ids) ==
    [k \in 1..Len(ids) |->
        [BaseReq EXCEPT !.op = "entry.delete", !.idx = k, !.id = ids[k]]]

\* deleteAssets: one client.asset.delete per id, all issued by the map
deleteAssets(ids) ==
    [k \in 1..Len(ids) |->
        [BaseReq EXCEPT !.op = "asset.delete", !.idx = k, !.id = ids[k]]]

findTaggedEntries(tag) ==
    <<[BaseReq EXCEPT !.op = "entry.getMany", !.tags = <<tag>>]>>

findTaggedAssets(tag) ==
    <<[BaseReq EXCEPT !.op = "asset.getMany", !.tags = <<tag>>]>>

----------------------------------------------------------------------------
(* The command line.                                                       *)

\* .option('-t, --tag', description, DEFAULT_TAG): the flags name no <value>, so
\* the option is a boolean one: absent it keeps its default, present it is true,
\* and the word after it is left over as an argument of the command
OptionValue(given, default) == IF given = NoOpt THEN default ELSE FlagTrue

\* the options object of `cfdata setup [-l ..] [-t ..]`
SetupOptions(a) ==
    [tag |-> OptionValue(a.tag, DEFAULT_TAG), locale |-> OptionValue(a.locale, DEFAULT_LOCALE)]

\* the options object of `cfdata teardown [-t ..]`
TeardownOptions(a) ==
    [tag |-> OptionValue(a.tag, DEFAULT_TAG), locale |-> NoOpt]

CommandLines ==
    [command : {"setup"}, tag : {NoOpt} \cup TagArgs, locale : {NoOpt} \cup LocaleArgs]
    \cup [command : {"teardown"}, tag : {NoOpt} \cup TagArgs, locale : {NoOpt}]

----------------------------------------------------------------------------
(* Bookkeeping shared by the actions.                                      *)

NoneSent == [o \in Ops |-> 0]

\* sent, after the requests reqs have been issued
Issue(s, reqs) ==
    [o \in Ops |-> s[o] + Cardinality({k \in 1..Len(reqs) : reqs[k].op = o})]

EmptyItems == [assets |-> <<>>, entries |-> <<>>]

\* the positions of pending the service may answer next
Window == 1..Min(MaxWindow, Len(pending))

\* the phases as they would be if teardownCommand deleted before it unpublished
PhaseRequestsDeleteFirst(p, entries, assets) ==
    CASE p = 1 -> deleteEntries(entries)
      [] p = 2 -> deleteAssets(assets)
      [] p = 3 -> unpublishEntries(entries)
      [] p = 4 -> unpublishAssets(assets)
      [] OTHER -> <<>>

\* the phases as they would be if the delete phases looked the tag up again
\* instead of using the ids found at the start
PhaseRequestsLookupAgain(p, entries, assets) ==
    CASE p = 1 -> unpublishEntries(entries)
      [] p = 2 -> unpublishAssets(assets)
      [] p = 3 -> deleteEntries(Page(ws, "Entry", options.tag, order))
      [] p = 4 -> deleteAssets(Page(ws, "Asset", options.tag, order))
      [] OTHER -> <<>>

\* teardownCommand lines 14-17: the requests of phase p
PhaseRequests(p, entries, assets) ==
    CASE p = 1 -> unpublishEntries(entries)
      [] p = 2 -> unpublishAssets(assets)
      [] p = 3 -> deleteEntries(entries)
      [] p = 4 -> deleteAssets(assets)
      [] OTHER -> <<>>

PhasePc(p) ==
    CASE p = 1 -> "unpublishEntries"
      [] p = 2 -> "unpublishAssets"
      [] p = 3 -> "deleteEntries"
      [] p = 4 -> "deleteAssets"
      [] OTHER -> "done"

\* a phase that issues nothing resolves at once: the first phase from p on that
\* has a request to wait for, 5 when there is none
RECURSIVE NextPhase(_, _, _)
NextPhase(p, entries, assets) ==
    IF p > 4 THEN 5
    ELSE IF Len(PhaseRequests(p, entries, assets)) > 0 THEN p
    ELSE NextPhase(p + 1, entries, assets)

\* teardownCommand continues with phase p or a later one
TeardownContinues(p, entries, assets) ==
    LET q == NextPhase(p, entries, assets)
        reqs == PhaseRequests(q, entries, assets)
    IN  /\ pc' = PhasePc(q)
        /\ pending' = reqs
        /\ sent' = Issue(sent, reqs)
        /\ outcome' = IF q = 5 THEN "finished" ELSE "running"

\* items as the workspace holds them before the first run: published entries
\* carrying DEFAULT_TAG, left by earlier runs of the tool
PriorWorkspace(n) ==
    [id \in 1..n |->
        [NewItem("Entry", "address", <<DEFAULT_TAG>>, 0, 0, 0)
            EXCEPT !.published = TRUE, !.version = 2]]

----------------------------------------------------------------------------
(* Initial state.                                                          *)

Init ==
    /\ ws = <<>>
    /\ run = 0
    /\ argv = [command |-> "none", tag |-> NoOpt, locale |-> NoOpt]
    /\ options = [tag |-> NoOpt, locale |-> NoOpt]
    /\ pc = "done"
    /\ i = 0
    /\ imageAsset = NoItem
    /\ addressEntry = NoItem
    /\ allCreatedItems = EmptyItems
    /\ generatedEntries = <<>>
    /\ generatedAssets = <<>>
    /\ pending = <<>>
    /\ results = <<>>
    /\ outcome = "idle"
    /\ error = NoError
    /\ sent = NoneSent
    /\ rejected = <<>>
    /\ order \in {"asc", "desc"}

----------------------------------------------------------------------------
(* program.parse(): one invocation of cfdata.                              *)

\* cfdata setup: setupCommand up to its first await (createTestEntry ->
\* createAssetFromPicsum -> client.asset.create)
DispatchSetup ==
    /\ outcome \in {"idle", "finished"}
    /\ run < MaxRuns
    /\ \E a \in CommandLines :
        /\ a.command = "setup"
        /\ argv' = a
        /\ options' = SetupOptions(a)
        /\ pending' = createAssetFromPicsum(SetupOptions(a).locale, SetupOptions(a).tag)
        /\ sent' = Issue(NoneSent, createAssetFromPicsum(SetupOptions(a).locale,
                                                         SetupOptions(a).tag))
    /\ run' = run + 1
    /\ pc' = "createAsset"
    /\ i' = 0
    /\ imageAsset' = NoItem
    /\ addressEntry' = NoItem
    /\ allCreatedItems' = EmptyItems
    /\ generatedEntries' = <<>>
    /\ generatedAssets' = <<>>
    /\ results' = <<>>
    /\ outcome' = "running"
    /\ error' = NoError
    /\ rejected' = <<>>
    /\ UNCHANGED <<ws, order>>

\* cfdata teardown: teardownCommand up to its first await (findTaggedEntries)
DispatchTeardown ==
    /\ outcome \in {"idle", "finished"}
    /\ run < MaxRuns
    /\ \E a \in CommandLines :
        /\ a.command = "teardown"
        /\ argv' = a
        /\ options' = TeardownOptions(a)
        /\ pending' = findTaggedEntries(TeardownOptions(a).tag)
        /\ sent' = Issue(NoneSent, findTaggedEntries(TeardownOptions(a).tag))
    /\ run' = run + 1
    /\ pc' = "findTaggedEntries"
    /\ i' = 0
    /\ imageAsset' = NoItem
    /\ addressEntry' = NoItem
    /\ allCreatedItems' = EmptyItems
    /\ generatedEntries' = <<>>
    /\ generatedAssets' = <<>>
    /\ results' = <<>>
    /\ outcome' = "running"
    /\ error' = NoError
    /\ rejected' = <<>>
    /\ UNCHANGED <<ws, order>>

----------------------------------------------------------------------------
(* setupCommand and createTestEntry, one action per await.                 *)

\* client.asset.create resolved (README 239): tagAsset issues the update
AssetCreated ==
    /\ outcome = "running" /\ pc = "createAsset"
    /\ Accepts(ws, pending[1])
    /\ ws' = Effect(ws, pending[1], run)
    /\ LET asset == Snapshot(ws', CreatedId(ws)) IN
        /\ pending' = tagAsset(asset, options.tag)
        /\ sent' = Issue(sent, tagAsset(asset, options.tag))
    /\ pc' = "tagAsset"
    /\ UNCHANGED <<run, argv, options, i, imageAsset, addressEntry, allCreatedItems,
                   generatedEntries, generatedAssets, results, outcome, error,
                   rejected, order>>

\* createTestEntry as it would be if it created the article before the address
AssetTaggedArticleFirst ==
    /\ outcome = "running" /\ pc = "tagAsset"
    /\ Accepts(ws, pending[1])
    /\ ws' = Effect(ws, pending[1], run)
    /\ imageAsset' = Snapshot(ws', pending[1].id)
    /\ pending' = createEntry("article", addressEntry.id, imageAsset'.id, options.tag)
    /\ sent' = Issue(sent, pending')
    /\ pc' = "createArticle"
    /\ UNCHANGED <<run, argv, options, i, addressEntry, allCreatedItems,
                   generatedEntries, generatedAssets, results, outcome, error,
                   rejected, order>>

\* client.asset.update resolved (README 322): createAssetFromPicsum returns the
\* updated asset, createTestEntry goes on to create the address
AssetTagged ==
    /\ outcome = "running" /\ pc = "tagAsset"
    /\ Accepts(ws, pending[1])
    /\ ws' = Effect(ws, pending[1], run)
    /\ imageAsset' = Snapshot(ws', pending[1].id)
    /\ pending' = createEntry("address", 0, 0, options.tag)
    /\ sent' = Issue(sent, createEntry("address", 0, 0, options.tag))
    /\ pc' = "createAddress"
    /\ UNCHANGED <<run, argv, options, i, addressEntry, allCreatedItems,
                   generatedEntries, generatedAssets, results, outcome, error,
                   rejected, order>>

\* the address entry is created (part_000 67): the article that links to the
\* address and to the image is created next
AddressCreated ==
    /\ outcome = "running" /\ pc = "createAddress"
    /\ Accepts(ws, pending[1])
    /\ ws' = Effect(ws, pending[1], run)
    /\ addressEntry' = Snapshot(ws', CreatedId(ws))
    /\ pending' = createEntry("article", addressEntry'.id, imageAsset.id, options.tag)
    /\ sent' = Issue(sent, createEntry("article", addressEntry'.id, imageAsset.id,
                                       options.tag))
    /\ pc' = "createArticle"
    /\ UNCHANGED <<run, argv, options, i, imageAsset, allCreatedItems,
                   generatedEntries, generatedAssets, results, outcome, error,
                   rejected, order>>

\* what createTestEntry returns once the article is created (part_000 79-82),
\* pushed onto allCreatedItems (part_000 37-38)
Collected(items, asset, address, article) ==
    [assets |-> Append(items.assets, asset),
     entries |-> items.entries \o <<address, article>>]

\* toPublish as it would be if it took the assets as they were collected
\* instead of the ones processAssets resolved to
toPublishCollected(items, processed) == items.entries \o items.assets

\* toPublish = [...allCreatedItems.entries, ...allProcessedAssets]
toPublish(items, processed) == items.entries \o processed

\* the article entry is created (part_000 76): the iteration ends; the loop
\* starts the next one, or after the last one processAssets issues its requests
\* (a Promise.all of no promise resolves at once)
ArticleCreated ==
    /\ outcome = "running" /\ pc = "createArticle"
    /\ Accepts(ws, pending[1])
    /\ ws' = Effect(ws, pending[1], run)
    /\ allCreatedItems' = Collected(allCreatedItems, imageAsset, addressEntry,
                                    Snapshot(ws', CreatedId(ws)))
    /\ i' = i + 1
    /\ IF i' < TripleCount
       THEN /\ pending' = createAssetFromPicsum(options.locale, options.tag)
            /\ pc' = "createAsset"
            /\ results' = results
            /\ outcome' = outcome
       ELSE IF Len(processAssets(allCreatedItems'.assets)) > 0
       THEN /\ pending' = processAssets(allCreatedItems'.assets)
            /\ pc' = "processAssets"
            /\ results' = [k \in 1..Len(allCreatedItems'.assets) |-> NoItem]
            /\ outcome' = outcome
       ELSE /\ pending' = publishItems(toPublish(allCreatedItems', <<>>))
            /\ pc' = IF Len(pending') = 0 THEN "done" ELSE "publishItems"
            /\ results' = <<>>
            /\ outcome' = IF Len(pending') = 0 THEN "finished" ELSE "running"
    /\ sent' = Issue(sent, pending')
    /\ UNCHANGED <<run, argv, options, imageAsset, addressEntry,
                   generatedEntries, generatedAssets, error, rejected, order>>

\* processAssets as it would be with Promise.race in place of Promise.all:
\* setupCommand publishes as soon as the first asset is processed
AssetProcessedRace ==
    /\ outcome = "running" /\ pc = "processAssets"
    /\ \E k \in Window :
        /\ Accepts(ws, pending[k])
        /\ ws' = Effect(ws, pending[k], run)
        /\ results' = [results EXCEPT ![pending[k].idx] = Snapshot(ws', pending[k].id)]
        /\ pending' = publishItems(toPublish(allCreatedItems, results'))
        /\ pc' = "publishItems"
        /\ sent' = Issue(sent, pending')
        /\ outcome' = "running"
    /\ UNCHANGED <<run, argv, options, i, imageAsset, addressEntry, allCreatedItems,
                   generatedEntries, generatedAssets, error, rejected, order>>

\* one processForAllLocales resolved (README 252); when it was the last one,
\* Promise.all resolves and setupCommand publishes everything in one go
AssetProcessed ==
    /\ outcome = "running" /\ pc = "processAssets"
    /\ \E k \in Window :
        /\ Accepts(ws, pending[k])
        /\ ws' = Effect(ws, pending[k], run)
        /\ results' = [results EXCEPT ![pending[k].idx] = Snapshot(ws', pending[k].id)]
        /\ IF Len(pending) > 1
           THEN /\ pending' = Without(pending, k)
                /\ pc' = pc
                /\ sent' = sent
                /\ outcome' = outcome
           ELSE /\ pending' = publishItems(toPublish(allCreatedItems, results'))
                /\ pc' = IF Len(pending') = 0 THEN "done" ELSE "publishItems"
                /\ sent' = Issue(sent, pending')
                /\ outcome' = IF Len(pending') = 0 THEN "finished" ELSE "running"
    /\ UNCHANGED <<run, argv, options, i, imageAsset, addressEntry, allCreatedItems,
                   generatedEntries, generatedAssets, error, rejected, order>>

\* client.bulkAction.publish resolved (README 283): 'setup finished'
ItemsPublished ==
    /\ outcome = "running" /\ pc = "publishItems"
    /\ Accepts(ws, pending[1])
    /\ ws' = Effect(ws, pending[1], run)
    /\ pending' = <<>>
    /\ pc' = "done"
    /\ outcome' = "finished"
    /\ UNCHANGED <<run, argv, options, i, imageAsset, addressEntry, allCreatedItems,
                   generatedEntries, generatedAssets, results, error, sent,
                   rejected, order>>

----------------------------------------------------------------------------
(* teardownCommand, one action per await.                                  *)

\* client.entry.getMany resolved (README 81): findTaggedAssets is issued
EntriesFound ==
    /\ outcome = "running" /\ pc = "findTaggedEntries"
    /\ generatedEntries' = Page(ws, "Entry", pending[1].tags[1], order)
    /\ pending' = findTaggedAssets(options.tag)
    /\ sent' = Issue(sent, findTaggedAssets(options.tag))
    /\ pc' = "findTaggedAssets"
    /\ UNCHANGED <<ws, run, argv, options, i, imageAsset, addressEntry,
                   allCreatedItems, generatedAssets, results, outcome, error,
                   rejected, order>>

\* client.asset.getMany resolved (README 100): the four phases begin
AssetsFound ==
    /\ outcome = "running" /\ pc = "findTaggedAssets"
    /\ generatedAssets' = Page(ws, "Asset", pending[1].tags[1], order)
    /\ TeardownContinues(1, generatedEntries, generatedAssets')
    /\ UNCHANGED <<ws, run, argv, options, i, imageAsset, addressEntry,
                   allCreatedItems, generatedEntries, results, error,
                   rejected, order>>

\* the bulk unpublish of the entries resolved (part_001 14)
EntriesUnpublished ==
    /\ outcome = "running" /\ pc = "unpublishEntries"
    /\ Accepts(ws, pending[1])
    /\ ws' = Effect(ws, pending[1], run)
    /\ TeardownContinues(2, generatedEntries, generatedAssets)
    /\ UNCHANGED <<run, argv, options, i, imageAsset, addressEntry, allCreatedItems,
                   generatedEntries, generatedAssets, results, error,
                   rejected, order>>

\* the bulk unpublish of the assets resolved (part_001 15)
AssetsUnpublished ==
    /\ outcome = "running" /\ pc = "unpublishAssets"
    /\ Accepts(ws, pending[1])
    /\ ws' = Effect(ws, pending[1], run)
    /\ TeardownContinues(3, generatedEntries, generatedAssets)
    /\ UNCHANGED <<run, argv, options, i, imageAsset, addressEntry, allCreatedItems,
                   generatedEntries, generatedAssets, results, error,
                   rejected, order>>

\* one client.entry.delete resolved (README 122); after the last one
\* Promise.all resolves and deleteAssets issues its requests (part_001 16-17)
EntryDeleted ==
    /\ outcome = "running" /\ pc = "deleteEntries"
    /\ \E k \in Window :
        /\ Accepts(ws, pending[k])
        /\ ws' = Effect(ws, pending[k], run)
        /\ IF Len(pending) > 1
           THEN /\ pending' = Without(pending, k)
                /\ UNCHANGED <<pc, sent, outcome>>
           ELSE TeardownContinues(4, generatedEntries, generatedAssets)
    /\ UNCHANGED <<run, argv, options, i, imageAsset, addressEntry, allCreatedItems,
                   generatedEntries, generatedAssets, results, error,
                   rejected, order>>

\* one client.asset.delete resolved (README 135); after the last one
\* Promise.all resolves: 'teardown finished'
AssetDeleted ==
    /\ outcome = "running" /\ pc = "deleteAssets"
    /\ \E k \in Window :
        /\ Accepts(ws, pending[k])
        /\ ws' = Effect(ws, pending[k], run)
        /\ IF Len(pending) > 1
           THEN /\ pending' = Without(pending, k)
                /\ UNCHANGED <<pc, sent, outcome>>
           ELSE TeardownContinues(5, generatedEntries, generatedAssets)
    /\ UNCHANGED <<run, argv, options, i, imageAsset, addressEntry, allCreatedItems,
                   generatedEntries, generatedAssets, results, error,
                   rejected, order>>

----------------------------------------------------------------------------
(* Rejections.  No function of the tool catches one: the rejection of any   *)
(* awaited promise, or of any member of a Promise.all, rejects the          *)
(* workflow, and nothing of it runs afterwards.                             *)

\* the rejection of request r
Rejection(r) == [op |-> r.op, id |-> r.id]

\* a rejection as it would be handled if each request were wrapped in a catch
\* that logs and carries on
RequestRejectedSwallowed ==
    /\ outcome = "running"
    /\ Len(pending) > 1
    /\ \E k \in Window :
        /\ rejected' = Append(rejected, Rejection(pending[k]))
        /\ pending' = Without(pending, k)
    /\ UNCHANGED <<ws, run, argv, options, pc, i, imageAsset, addressEntry,
                   allCreatedItems, generatedEntries, generatedAssets, results,
                   sent, order, outcome, error>>

\* a rejection as it would be handled if the request were issued again
RequestRejectedRetried ==
    /\ outcome = "running"
    /\ \E k \in Window :
        /\ rejected' = Append(rejected, Rejection(pending[k]))
        /\ sent' = Issue(sent, <<pending[k]>>)
    /\ UNCHANGED <<ws, run, argv, options, pc, i, imageAsset, addressEntry,
                   allCreatedItems, generatedEntries, generatedAssets, results,
                   pending, order, outcome, error>>

\* a rejection as it would be handled if the join compensated: the requests
\* still in flight are dropped and what the siblings did is undone
RequestRejectedCompensated ==
    /\ outcome = "running"
    /\ \E k \in Window :
        /\ rejected' = Append(rejected, Rejection(pending[k]))
        /\ error' = Rejection(pending[k])
    /\ pending' = <<>>
    /\ ws' = [id \in 1..Len(ws) |->
                IF id \in Range(generatedEntries) \cup Range(generatedAssets)
                THEN [ws[id] EXCEPT !.exists = TRUE]
                ELSE IF ws[id].run = run
                THEN [ws[id] EXCEPT !.processed = FALSE]
                ELSE ws[id]]
    /\ outcome' = "failed"
    /\ UNCHANGED <<run, argv, options, pc, i, imageAsset, addressEntry,
                   allCreatedItems, generatedEntries, generatedAssets, results, sent, order>>

\* the service rejects a request in flight: because it cannot carry it out, or
\* for a reason of its own (credentials, rate limit, transport)
RequestRejected ==
    /\ outcome = "running"
    /\ \E k \in Window :
        /\ rejected' = Append(rejected, Rejection(pending[k]))
        /\ error' = Rejection(pending[k])
        /\ pending' = Without(pending, k)
    /\ outcome' = "failed"
    /\ UNCHANGED <<ws, run, argv, options, pc, i, imageAsset, addressEntry,
                   allCreatedItems, generatedEntries, generatedAssets, results, sent, order>>

\* a request of a failed join that was already on its way is still carried out
\* by the service; nobody waits for its answer
OrphanCarriedOut ==
    /\ outcome = "failed"
    /\ \E k \in Window :
        /\ Accepts(ws, pending[k])
        /\ ws' = Effect(ws, pending[k], run)
        /\ pending' = Without(pending, k)
    /\ UNCHANGED <<run, argv, options, pc, i, imageAsset, addressEntry,
                   allCreatedItems, generatedEntries, generatedAssets, results,
                   outcome, error, sent, rejected, order>>

----------------------------------------------------------------------------

Next ==
    \/ DispatchSetup
    \/ DispatchTeardown
    \/ AssetCreated
    \/ AssetTagged
    \/ AddressCreated
    \/ ArticleCreated
    \/ AssetProcessed
    \/ ItemsPublished
    \/ EntriesFound
    \/ AssetsFound
    \/ EntriesUnpublished
    \/ AssetsUnpublished
    \/ EntryDeleted
    \/ AssetDeleted
    \/ RequestRejected
    \/ OrphanCarriedOut

Spec == Init /\ [][Next]_vars

----------------------------------------------------------------------------
(* The same program on a workspace that already holds PriorEntries entries  *)
(* carrying DEFAULT_TAG, with a service that rejects nothing it can carry   *)
(* out ("no step fails").                                                   *)

InitCrowded ==
    /\ ws = PriorWorkspace(PriorEntries)
    /\ run = 0
    /\ argv = [command |-> "none", tag |-> NoOpt, locale |-> NoOpt]
    /\ options = [tag |-> NoOpt, locale |-> NoOpt]
    /\ pc = "done"
    /\ i = 0
    /\ imageAsset = NoItem
    /\ addressEntry = NoItem
    /\ allCreatedItems = EmptyItems
    /\ generatedEntries = <<>>
    /\ generatedAssets = <<>>
    /\ pending = <<>>
    /\ results = <<>>
    /\ outcome = "idle"
    /\ error = NoError
    /\ sent = NoneSent
    /\ rejected = <<>>
    /\ order \in {"asc", "desc"}

NextReliable ==
    \/ DispatchSetup
    \/ DispatchTeardown
    \/ AssetCreated
    \/ AssetTagged
    \/ AddressCreated
    \/ ArticleCreated
    \/ AssetProcessed
    \/ ItemsPublished
    \/ EntriesFound
    \/ AssetsFound
    \/ EntriesUnpublished
    \/ AssetsUnpublished
    \/ EntryDeleted
    \/ AssetDeleted

SpecCrowded == InitCrowded /\ [][NextReliable]_vars

----------------------------------------------------------------------------
(* A setup whose tag update is rejected, followed by a teardown: the        *)
(* service is otherwise reliable, and cfdata is run again after the         *)
(* invocation that failed.                                                  *)

\* client.asset.update is rejected (README 322): tagAsset, createAssetFromPicsum,
\* createTestEntry and setupCommand reject in turn
TagUpdateRejected ==
    /\ pc = "tagAsset"
    /\ RequestRejected

\* cfdata teardown, run after an invocation that ended with an unhandled
\* rejection: teardownCommand up to its first await
TeardownAfterFailure ==
    /\ outcome = "failed"
    /\ pending = <<>>
    /\ run < MaxRuns
    /\ \E a \in CommandLines :
        /\ a.command = "teardown"
        /\ argv' = a
        /\ options' = TeardownOptions(a)
        /\ pending' = findTaggedEntries(TeardownOptions(a).tag)
        /\ sent' = Issue(NoneSent, findTaggedEntries(TeardownOptions(a).tag))
    /\ run' = run + 1
    /\ pc' = "findTaggedEntries"
    /\ i' = 0
    /\ imageAsset' = NoItem
    /\ addressEntry' = NoItem
    /\ allCreatedItems' = EmptyItems
    /\ generatedEntries' = <<>>
    /\ generatedAssets' = <<>>
    /\ results' = <<>>
    /\ outcome' = "running"
    /\ error' = NoError
    /\ rejected' = <<>>
    /\ UNCHANGED <<ws, order>>

NextUntagged ==
    \/ NextReliable
    \/ TagUpdateRejected
    \/ TeardownAfterFailure

SpecUntagged == Init /\ [][NextUntagged]_vars

----------------------------------------------------------------------------
(* A workspace shared with another client: it holds a few tagged entries    *)
(* beforehand, and while a teardown runs another client (a cfdata setup     *)
(* running at the same time, say) creates entries in it.                    *)

\* entries carrying DEFAULT_TAG that the shared workspace holds beforehand
PriorShared == 2
\* entries the other client creates in one behaviour
MaxOthers == 1

\* the items the other client created (they belong to no run of this one)
Others(w) == {id \in 1..Len(w) : w[id].run = -1}

InitShared ==
    /\ ws = PriorWorkspace(PriorShared)
    /\ run = 0
    /\ argv = [command |-> "none", tag |-> NoOpt, locale |-> NoOpt]
    /\ options = [tag |-> NoOpt, locale |-> NoOpt]
    /\ pc = "done"
    /\ i = 0
    /\ imageAsset = NoItem
    /\ addressEntry = NoItem
    /\ allCreatedItems = EmptyItems
    /\ generatedEntries = <<>>
    /\ generatedAssets = <<>>
    /\ pending = <<>>
    /\ results = <<>>
    /\ outcome = "idle"
    /\ error = NoError
    /\ sent = NoneSent
    /\ rejected = <<>>
    /\ order \in {"asc", "desc"}

\* another client's client.entry.create, with either tag cfdata can end up
\* using, is carried out while teardownCommand is suspended at an await
OtherClientCreates ==
    /\ argv.command = "teardown" /\ outcome = "running"
    /\ Cardinality(Others(ws)) < MaxOthers
    /\ \E t \in {DEFAULT_TAG, FlagTrue}, pub \in BOOLEAN :
          ws' = Append(ws, [NewItem("Entry", "address", <<t>>, 0, 0, -1)
                               EXCEPT !.published = pub])
    /\ UNCHANGED <<run, argv, options, pc, i, imageAsset, addressEntry,
                   allCreatedItems, generatedEntries, generatedAssets, pending,
                   results, outcome, error, sent, rejected, order>>

NextShared ==
    \/ NextReliable
    \/ OtherClientCreates

SpecShared == InitShared /\ [][NextShared]_vars

----------------------------------------------------------------------------
(* deleteEntries on its own: it is called with the ids of entries of which  *)
(* any may be published, on a service that rejects only what it cannot      *)
(* carry out.                                                               *)

\* entries handed to one call of deleteEntries
MaxDeleted == 4

\* the workspace: entry id is published where pubs[id], a draft otherwise
EntriesWorkspace(pubs) ==
    [id \in DOMAIN pubs |->
        [NewItem("Entry", "address", <<DEFAULT_TAG>>, 0, 0, 0)
            EXCEPT !.published = pubs[id], !.version = IF pubs[id] THEN 2 ELSE 1]]

InitDelete ==
    /\ \E n \in 1..MaxDeleted : \E pubs \in [1..n -> BOOLEAN] :
          ws = EntriesWorkspace(pubs)
    /\ run = 1
    /\ argv = [command |-> "none", tag |-> NoOpt, locale |-> NoOpt]
    /\ options = [tag |-> DEFAULT_TAG, locale |-> NoOpt]
    /\ pc = "deleteEntries"
    /\ i = 0
    /\ imageAsset = NoItem
    /\ addressEntry = NoItem
    /\ allCreatedItems = EmptyItems
    /\ order \in {"asc", "desc"}
    /\ generatedEntries = Page(ws, "Entry", DEFAULT_TAG, order)
    /\ generatedAssets = <<>>
    /\ pending = deleteEntries(generatedEntries)
    /\ results = <<>>
    /\ outcome = "running"
    /\ error = NoError
    /\ sent = Issue(NoneSent, pending)
    /\ rejected = <<>>

\* client.entry.delete rejects for an entry the service cannot delete (README
\* 122): the Promise.all of deleteEntries rejects
DeleteRefused ==
    /\ outcome = "running" /\ pc = "deleteEntries"
    /\ \E k \in Window :
        /\ ~Accepts(ws, pending[k])
        /\ rejected' = Append(rejected, Rejection(pending[k]))
        /\ error' = Rejection(pending[k])
        /\ pending' = Without(pending, k)
    /\ outcome' = "failed"
    /\ UNCHANGED <<ws, run, argv, options, pc, i, imageAsset, addressEntry,
                   allCreatedItems, generatedEntries, generatedAssets, results, sent, order>>

NextDelete ==
    \/ EntryDeleted
    \/ DeleteRefused
    \/ OrphanCarriedOut

SpecDelete == InitDelete /\ [][NextDelete]_vars

----------------------------------------------------------------------------
(* tagAsset on its own: one asset, with any tags it may already carry, is   *)
(* tagged with the same tag over and over, each time passing on the asset   *)
(* the previous update returned.                                            *)

\* applications of tagAsset in one behaviour
MaxRetags == 3
\* tag links the asset may carry beforehand
MaxPriorTags == 3

TagIds == {DEFAULT_TAG, FlagTrue} \cup TagArgs

TagLists == UNION {[1..n -> TagIds] : n \in 0..MaxPriorTags}

InitTag ==
    /\ \E tags \in TagLists, v \in 1..2 :
          ws = <<[NewItem("Asset", "image", tags, 0, 0, 1) EXCEPT !.version = v]>>
    /\ run = 1
    /\ argv = [command |-> "none", tag |-> NoOpt, locale |-> NoOpt]
    /\ \E t \in TagIds : options = [tag |-> t, locale |-> DEFAULT_LOCALE]
    /\ pc = "tagAsset"
    /\ i = 0
    /\ imageAsset = NoItem
    /\ addressEntry = NoItem
    /\ allCreatedItems = EmptyItems
    /\ generatedEntries = <<>>
    /\ generatedAssets = <<>>
    /\ pending = tagAsset(Snapshot(ws, 1), options.tag)
    /\ results = <<>>
    /\ outcome = "running"
    /\ error = NoError
    /\ sent = Issue(NoneSent, pending)
    /\ rejected = <<>>
    /\ order = "asc"

\* client.asset.update resolved (README 322-329): tagAsset returns the updated
\* asset, which is tagged again
Retagged ==
    /\ outcome = "running" /\ pc = "tagAsset"
    /\ Accepts(ws, pending[1])
    /\ ws' = Effect(ws, pending[1], run)
    /\ imageAsset' = Snapshot(ws', pending[1].id)
    /\ IF sent["asset.update"] < MaxRetags
       THEN /\ pending' = tagAsset(imageAsset', options.tag)
            /\ sent' = Issue(sent, pending')
            /\ UNCHANGED <<pc, outcome>>
       ELSE /\ pending' = <<>>
            /\ pc' = "done"
            /\ outcome' = "finished"
            /\ sent' = sent
    /\ UNCHANGED <<run, argv, options, i, addressEntry, allCreatedItems,
                   generatedEntries, generatedAssets, results, error,
                   rejected, order>>

NextTag == Retagged

SpecTag == InitTag /\ [][NextTag]_vars

----------------------------------------------------------------------------
(* Vocabulary of the properties.                                           *)

Ids == 1..Len(ws)

\* the items the current run created
CreatedNow(kind, ctype) ==
    {id \in Ids : ws[id].run = run /\ ws[id].kind = kind /\ ws[id].ctype = ctype}

CreatedNowAll == {id \in Ids : ws[id].run = run}

\* the run before the current one was a setup that used tag t (a run is only
\* dispatched after the one before it has finished)
SetupRanBefore(t) ==
    \E id \in Ids : ws[id].run = run - 1 /\ run > 1 /\ ws[id].kind = "Entry" /\ ws[id].tags = <<t>>

InFlight(op) == {k \in 1..Len(pending) : pending[k].op = op}

Rejected(op) == {k \in 1..Len(rejected) : rejected[k].op = op}

LookedUp == Range(generatedEntries) \cup Range(generatedAssets)

----------------------------------------------------------------------------
(* C1: when setup with tag T has run to completion and teardown with the    *)
(* same T has then finished without a failed step, no entry and no asset    *)
(* carrying T is left: findTaggedEntries(T) and findTaggedAssets(T) are     *)
(* empty.  Stated as an invariant of the state in which teardown finished.  *)
C1_FullCleanup ==
    (argv.command = "teardown" /\ outcome = "finished" /\ SetupRanBefore(options.tag))
    => /\ Tagged(ws, "Entry", options.tag) = <<>>
       /\ Tagged(ws, "Asset", options.tag) = <<>>

----------------------------------------------------------------------------
(* C2: `cfdata setup --tag demo --locale en-US` in which no step fails      *)
(* creates exactly 10 Address entries, 10 Image assets and 10 Article       *)
(* entries, each carrying tag demo, and all of them are published when      *)
(* setup has finished.                                                      *)
C2_SetupScenario ==
    (argv = [command |-> "setup", tag |-> "demo", locale |-> "en-US"]
        /\ outcome = "finished")
    => /\ Cardinality(CreatedNow("Entry", "address")) = 10
       /\ Cardinality(CreatedNow("Asset", "image")) = 10
       /\ Cardinality(CreatedNow("Entry", "article")) = 10
       /\ \A id \in CreatedNowAll : ws[id].tags = <<"demo">> /\ ws[id].published

\* what of the scenario the workflow does deliver: the counts, publication,
\* and the tag the workflow was handed (options.tag)
C2_SetupDelivers ==
    (argv.command = "setup" /\ outcome = "finished")
    => /\ Cardinality(CreatedNow("Entry", "address")) = 10
       /\ Cardinality(CreatedNow("Asset", "image")) = 10
       /\ Cardinality(CreatedNow("Entry", "article")) = 10
       /\ \A id \in CreatedNowAll : ws[id].tags = <<options.tag>> /\ ws[id].published

C2_SetupFinished ==
    argv = [command |-> "setup", tag |-> "demo", locale |-> "en-US"] /\ outcome = "finished"

----------------------------------------------------------------------------
(* C3: publishItems([]) and unpublishItems([]) issue no bulk-action request *)
(* and resolve; so a teardown whose lookups found nothing issues no         *)
(* unpublish and no delete request and finishes.                            *)
C3_EmptyIsNoOp ==
    /\ publishItems(<<>>) = <<>>
    /\ unpublishEntries(<<>>) = <<>>
    /\ unpublishAssets(<<>>) = <<>>
    /\ (argv.command = "teardown"
            /\ pc \notin {"findTaggedEntries", "findTaggedAssets"}
            /\ generatedEntries = <<>> /\ generatedAssets = <<>>)
       => /\ outcome = "finished"
          /\ rejected = <<>>
          /\ sent["bulk.unpublish"] = 0
          /\ sent["entry.delete"] = 0
          /\ sent["asset.delete"] = 0
    /\ \A k \in InFlight("bulk.unpublish") \cup InFlight("bulk.publish") :
          Len(pending[k].items) > 0

C3_Witness ==
    /\ argv.command = "teardown" /\ outcome = "finished"
    /\ generatedEntries = <<>> /\ generatedAssets = <<>>
    /\ sent["entry.getMany"] = 1 /\ sent["asset.getMany"] = 1

----------------------------------------------------------------------------
(* C4: if the processing of any asset of a setup run is rejected, the bulk  *)
(* publish request of that run is not issued and no item the run created    *)
(* is published.                                                            *)
C4_ProcessingFailureBlocksPublish ==
    (argv.command = "setup" /\ Rejected("asset.process") # {})
    => /\ sent["bulk.publish"] = 0
       /\ InFlight("bulk.publish") = {}
       /\ \A id \in CreatedNowAll : ~ws[id].published

\* processing failed for one asset while it succeeded for others of the run
C4_Witness ==
    /\ argv.command = "setup" /\ Rejected("asset.process") # {}
    /\ \E id \in CreatedNow("Asset", "image") : ws[id].processed
    /\ \E id \in CreatedNow("Asset", "image") : ~ws[id].processed

----------------------------------------------------------------------------
(* C5: at every point at which an Article exists, its address link is the   *)
(* id of an Address entry and its mainImage link the id of an Image asset,  *)
(* both created earlier in the same run.                                    *)
C5_ReferentialClosure ==
    \A id \in Ids :
        ws[id].ctype = "article"
        => /\ ws[id].address \in 1..(id - 1)
           /\ ws[ws[id].address].kind = "Entry"
           /\ ws[ws[id].address].ctype = "address"
           /\ ws[ws[id].address].run = ws[id].run
           /\ ws[id].mainImage \in 1..(id - 1)
           /\ ws[ws[id].mainImage].kind = "Asset"
           /\ ws[ws[id].mainImage].ctype = "image"
           /\ ws[ws[id].mainImage].run = ws[id].run

C5_Witness ==
    /\ argv.command = "setup" /\ outcome = "finished"
    /\ Cardinality(CreatedNow("Entry", "article")) = TripleCount

----------------------------------------------------------------------------
(* C6: teardown unpublishes the looked-up entries, then the looked-up       *)
(* assets, then deletes the entries, then the assets, each phase awaited    *)
(* before the next is issued: no delete is issued before both unpublish     *)
(* requests have resolved, and no asset delete before every entry delete    *)
(* has resolved.                                                            *)
C6_TeardownPhaseOrder ==
    argv.command = "teardown"
    => /\ (sent["bulk.unpublish"] > 0 \/ sent["entry.delete"] > 0 \/ sent["asset.delete"] > 0)
          => /\ sent["entry.getMany"] = 1 /\ sent["asset.getMany"] = 1
             /\ InFlight("entry.getMany") = {} /\ InFlight("asset.getMany") = {}
       /\ (\E k \in InFlight("bulk.unpublish") : pending[k].type = "Asset")
          => /\ Cardinality(InFlight("bulk.unpublish")) = 1
             /\ \A id \in Range(generatedEntries) : ~ws[id].published
       /\ (sent["entry.delete"] > 0 \/ sent["asset.delete"] > 0)
          => /\ InFlight("bulk.unpublish") = {}
             /\ Rejected("bulk.unpublish") = {}
             /\ \A id \in LookedUp : ~ws[id].published
       /\ sent["asset.delete"] > 0
          => /\ InFlight("entry.delete") = {}
             /\ Rejected("entry.delete") = {}
             /\ \A id \in Range(generatedEntries) : ~ws[id].exists

\* the asset deletes are in flight, after entries and assets were unpublished
\* and the entries deleted
C6_Witness ==
    /\ argv.command = "teardown" /\ pc = "deleteAssets"
    /\ InFlight("asset.delete") # {}
    /\ sent["bulk.unpublish"] = 2
    /\ sent["entry.delete"] = 2 * TripleCount

----------------------------------------------------------------------------
(* C7: in setup the bulk publish is issued only after the processing of     *)
(* every asset of the run has completed; so no Article of the run is        *)
(* published while a linked item is missing or its image is unprocessed,    *)
(* and while one asset of the run is unprocessed nothing of the run is      *)
(* published.                                                               *)
C7_PublishAfterProcessing ==
    argv.command = "setup"
    => /\ sent["bulk.publish"] > 0
          => /\ InFlight("asset.process") = {}
             /\ Rejected("asset.process") = {}
             /\ Cardinality(CreatedNow("Asset", "image")) = TripleCount
             /\ \A id \in CreatedNow("Asset", "image") : ws[id].processed
       /\ \A id \in CreatedNow("Entry", "article") :
             ws[id].published
             => /\ Live(ws, ws[id].address)
                /\ Live(ws, ws[id].mainImage)
                /\ ws[ws[id].mainImage].processed
       /\ (\E id \in CreatedNow("Asset", "image") : ~ws[id].processed)
          => \A id \in CreatedNowAll : ~ws[id].published

\* the publish request is in flight, every asset processed
C7_Witness ==
    /\ argv.command = "setup" /\ InFlight("bulk.publish") # {}
    /\ \A id \in CreatedNow("Asset", "image") : ws[id].processed

----------------------------------------------------------------------------
(* C8: in every setup iteration the Article create request is issued only   *)
(* after the Image asset is created and tagged and the Address entry is     *)
(* created; and while a request of iteration k+1 is in flight, iteration k  *)
(* is complete: the loop has one request in flight at a time.               *)
\* the requests the iteration has been answered when it waits at pc
LoopStep ==
    CASE pc = "createAsset" -> 0
      [] pc = "tagAsset" -> 1
      [] pc = "createAddress" -> 2
      [] pc = "createArticle" -> 3
      [] OTHER -> 0

\* the items the iteration has created when it waits at pc
LoopCreated ==
    CASE pc = "createAsset" -> 0
      [] pc = "tagAsset" -> 1
      [] pc = "createAddress" -> 1
      [] pc = "createArticle" -> 2
      [] OTHER -> 0

C8_CreationOrder ==
    argv.command = "setup"
    => /\ \A k \in InFlight("entry.create") :
             pending[k].ctype = "article"
             => /\ Live(ws, pending[k].mainImage)
                /\ ws[pending[k].mainImage].run = run
                /\ ws[pending[k].mainImage].kind = "Asset"
                /\ ws[pending[k].mainImage].tags = <<options.tag>>
                /\ InFlight("asset.update") = {}
                /\ Live(ws, pending[k].address)
                /\ ws[pending[k].address].run = run
                /\ ws[pending[k].address].ctype = "address"
       /\ (outcome = "running"
             /\ pc \in {"createAsset", "tagAsset", "createAddress", "createArticle"})
          => /\ Len(pending) = 1
             /\ i < TripleCount
             /\ Cardinality(CreatedNowAll) = 3 * i + LoopCreated
             /\ Cardinality(CreatedNow("Entry", "article")) = i
             /\ sent["asset.create"] + sent["asset.update"] + sent["entry.create"]
                   = 4 * i + LoopStep + 1

\* the article of the second iteration is being created
C8_Witness ==
    /\ argv.command = "setup" /\ outcome = "running"
    /\ pc = "createArticle" /\ i = 1
    /\ \E k \in InFlight("entry.create") : pending[k].ctype = "article"

----------------------------------------------------------------------------
(* C9: when the service rejects any request of setup or teardown, the       *)
(* workflow ends in failure with that rejection as its error: the request   *)
(* is not issued again, no further request is issued, and the workflow      *)
(* never finishes.                                                          *)
C9_Step ==
    /\ rejected' # <<>> => (outcome' = "failed" /\ error' = rejected'[1])
    /\ outcome' = "failed" => rejected' # <<>>
    /\ (Len(rejected') > Len(rejected) /\ run' = run) => sent' = sent
    /\ (outcome = "failed" /\ run' = run)
       => (outcome' = "failed" /\ sent' = sent /\ error' = error)

C9_FailurePropagates == [][C9_Step]_vars

\* a delete was rejected while sibling deletes were still in flight
C9_Witness ==
    /\ outcome = "failed" /\ error.op = "entry.delete"
    /\ InFlight("entry.delete") # {}

----------------------------------------------------------------------------
(* C10: after tagAsset(asset, T) has been applied, and after it has been    *)
(* applied again with the same T, the asset carries exactly one tag link,   *)
(* to T: the tag list is replaced, not appended to.                         *)
Retaggings == sent["asset.update"] - Len(pending)

C10_TagIdempotent ==
    Retaggings >= 1
    => /\ ws[1].tags = <<options.tag>>
       /\ imageAsset.tags = <<options.tag>>

\* tagged twice with the same tag
C10_Witness ==
    /\ Retaggings = 2
    /\ ws[1].tags = <<options.tag>>

----------------------------------------------------------------------------
(* C11: the joins are all-or-nothing without compensation.  When the        *)
(* service rejects one of the per-item requests of a join (asset            *)
(* processing, entry deletion, asset deletion) the workflow fails and the   *)
(* next phase is never issued; the rejection itself changes nothing in the  *)
(* workspace, and from then on nothing a sibling request did is undone: a   *)
(* deleted item stays deleted, a processed asset stays processed, while     *)
(* siblings still in flight may yet be carried out.                         *)
JoinOps == {"asset.process", "entry.delete", "asset.delete"}

C11_Step ==
    /\ (\E k \in 1..Len(rejected') : rejected'[k].op \in JoinOps)
       => /\ outcome' = "failed"
          /\ error'.op \in JoinOps
          /\ error'.op = "asset.process" => sent'["bulk.publish"] = 0
          /\ error'.op = "entry.delete" => sent'["asset.delete"] = 0
    /\ Len(rejected') > Len(rejected) => ws' = ws
    /\ (outcome = "failed" /\ run' = run)
       => /\ Len(ws') = Len(ws)
          /\ \A id \in 1..Len(ws) :
                /\ ~ws[id].exists => ~ws'[id].exists
                /\ ws[id].processed => ws'[id].processed
                /\ ws'[id].published = ws[id].published
                /\ ws'[id].tags = ws[id].tags

C11_NoCompensation == [][C11_Step]_vars

\* a teardown failed in its entry-delete phase: of the entries it looked up
\* some are deleted, others still exist, unpublished
C11_Witness ==
    /\ argv.command = "teardown" /\ outcome = "failed"
    /\ error.op = "entry.delete"
    /\ \E id \in Range(generatedEntries) : ~ws[id].exists
    /\ \E id \in Range(generatedEntries) : ws[id].exists /\ ~ws[id].published

----------------------------------------------------------------------------
(* C12: within a phase the per-item requests are issued together and the    *)
(* phase resolves only when every one of them has completed.                *)
\* the assets of the current run that are processed
ProcessedNow == {id \in CreatedNow("Asset", "image") : ws[id].processed}

\* the looked-up ids of a list that are deleted
Deleted(ids) == {id \in Range(ids) : ~ws[id].exists}

\* processing and deletion: while the join is awaited every request of it has
\* been issued and is either in flight or completed; the next phase is issued
\* only when all have completed
C12_JoinsOfProcessingAndDeletion ==
    /\ (pc = "processAssets" /\ outcome = "running")
       => /\ sent["asset.process"] = TripleCount
          /\ Cardinality(InFlight("asset.process")) + Cardinality(ProcessedNow)
                = TripleCount
    /\ (argv.command = "setup" /\ sent["bulk.publish"] > 0)
       => Cardinality(ProcessedNow) = TripleCount
    /\ (pc = "deleteEntries" /\ outcome = "running")
       => /\ sent["entry.delete"] = Len(generatedEntries)
          /\ Cardinality(InFlight("entry.delete"))
                + Cardinality(Deleted(generatedEntries)) = Len(generatedEntries)
    /\ (pc = "deleteAssets" /\ outcome = "running")
       => /\ sent["asset.delete"] = Len(generatedAssets)
          /\ Cardinality(InFlight("asset.delete"))
                + Cardinality(Deleted(generatedAssets)) = Len(generatedAssets)
    /\ (argv.command = "teardown" /\ sent["asset.delete"] > 0)
       => Cardinality(Deleted(generatedEntries)) = Len(generatedEntries)
    /\ (argv.command = "teardown" /\ outcome = "finished")
       => /\ Cardinality(Deleted(generatedEntries)) = Len(generatedEntries)
          /\ Cardinality(Deleted(generatedAssets)) = Len(generatedAssets)

\* C12 as claimed, tagging included: while a tag update is awaited, the tag
\* updates of all the assets of the run have been issued
C12_ConcurrentTagging ==
    /\ C12_JoinsOfProcessingAndDeletion
    /\ (argv.command = "setup" /\ InFlight("asset.update") # {})
       => sent["asset.update"] = TripleCount

\* C12 as amended: processing and deletion are joins as above; tagging is not:
\* the tag update of an asset is the only request in flight, and it is issued
\* after the tag updates of the assets before it were answered
C12_ConcurrentExceptTagging ==
    /\ C12_JoinsOfProcessingAndDeletion
    /\ (argv.command = "setup" /\ InFlight("asset.update") # {})
       => /\ Len(pending) = 1
          /\ sent["asset.update"] = i + 1
          /\ Cardinality({id \in CreatedNow("Asset", "image") :
                             ws[id].tags = <<options.tag>>}) = i

\* the processing join half way: some assets processed, the others in flight
C12_Witness ==
    /\ pc = "processAssets" /\ outcome = "running"
    /\ Cardinality(InFlight("asset.process")) = 5
    /\ Cardinality(ProcessedNow) = 5

----------------------------------------------------------------------------
(* C13: entries are tagged by the create call, assets by a second call.     *)
(* Every entry carries its run's tag from the moment it exists; an asset    *)
(* exists untagged while its tag update is awaited; when that update is     *)
(* rejected the asset stays in the workspace without a tag, and no teardown *)
(* looks it up or removes it.                                               *)
UntaggedAssets == {id \in Ids : ws[id].kind = "Asset" /\ ws[id].tags = <<>>}

C13_CreateThenTag ==
    /\ \A id \in Ids :
          ws[id].kind = "Entry"
          => /\ Len(ws[id].tags) = 1
             /\ (ws[id].run = run /\ run > 0) => ws[id].tags = <<options.tag>>
    /\ (pc = "tagAsset" /\ outcome = "running")
       => /\ pending[1].id = Len(ws)
          /\ pending[1].id \in UntaggedAssets
          /\ ws[pending[1].id].exists
    /\ (argv.command = "setup" /\ outcome = "failed" /\ error.op = "asset.update")
       => /\ error.id \in UntaggedAssets
          /\ ws[error.id].exists
    /\ \A id \in UntaggedAssets :
          /\ ws[id].exists
          /\ id \notin Range(generatedAssets)
          /\ \A k \in 1..Len(pending) :
                /\ pending[k].op = "asset.delete" => pending[k].id # id
                /\ pending[k].op = "bulk.unpublish" => id \notin Range(pending[k].items)

\* a teardown with the tag of the setup that failed before it has finished:
\* it removed what that setup had tagged, the untagged asset is still there
C13_Witness ==
    /\ argv.command = "teardown" /\ outcome = "finished"
    /\ SetupRanBefore(options.tag)
    /\ generatedEntries # <<>> /\ generatedAssets # <<>>
    /\ \E id \in UntaggedAssets : ws[id].run = run - 1 /\ ws[id].exists

----------------------------------------------------------------------------
(* C14: each lookup of teardown is one query and returns the ids of that    *)
(* one response: all the items carrying the tag when they fit one page,     *)
(* the first page otherwise; teardown then unpublishes and deletes the      *)
(* looked-up ids only, and the tagged items beyond the first page are left  *)
(* in place.                                                                *)
\* the live items of a kind that carry the tag
TaggedLive(kind, tag) ==
    {id \in Ids : ws[id].exists /\ ws[id].kind = kind /\ HasTag(ws[id], tag)}

----------------------------------------------------------------------------
(* C15: for a non-empty array publishItems issues one bulk publish whose    *)
(* payload has one link per item, with the item's id, version and type,     *)
(* assets and entries mixed; in setup the payload names every item of the   *)
(* run once, with the version the service holds at that time: for an asset  *)
(* the one processing returned, for an entry the one creation returned.     *)
\* an asset and an entry as a caller may hand them to publishItems
MixedItems ==
    <<[id |-> 7, version |-> 3, type |-> "Asset", tags |-> <<DEFAULT_TAG>>],
      [id |-> 8, version |-> 1, type |-> "Entry", tags |-> <<DEFAULT_TAG>>]>>

C15_PublishPayload ==
    /\ Len(publishItems(MixedItems)) = 1
    /\ publishItems(MixedItems)[1].op = "bulk.publish"
    /\ publishItems(MixedItems)[1].items
          = <<[id |-> 7, version |-> 3, type |-> "Asset"],
              [id |-> 8, version |-> 1, type |-> "Entry"]>>
    /\ \A k \in InFlight("bulk.publish") :
          LET items == pending[k].items IN
          /\ Len(pending) = 1
          /\ sent["bulk.publish"] = 1
          /\ Len(items) = 3 * TripleCount
          /\ {items[j].id : j \in 1..Len(items)} = CreatedNowAll
          /\ Cardinality(CreatedNowAll) = Len(items)
          /\ \A j \in 1..Len(items) :
                /\ Live(ws, items[j].id)
                /\ items[j].type = ws[items[j].id].kind
                /\ items[j].version = ws[items[j].id].version
                /\ items[j].type = "Asset" => items[j].version = 3
                /\ items[j].type = "Entry" => items[j].version = 1

\* the bulk publish of a run is in flight, with its twenty entries and ten assets
C15_Witness ==
    /\ argv.command = "setup" /\ pc = "publishItems"
    /\ \E k \in InFlight("bulk.publish") :
          /\ Cardinality({j \in 1..Len(pending[k].items) :
                            pending[k].items[j].type = "Entry"}) = 2 * TripleCount
          /\ Cardinality({j \in 1..Len(pending[k].items) :
                            pending[k].items[j].type = "Asset"}) = TripleCount

----------------------------------------------------------------------------
(* C16: teardown with tag T changes only what its lookup at the start       *)
(* returned.  Every id it looks up is a live item carrying T at that time;  *)
(* every unpublish and delete request names looked-up ids only; and a step  *)
(* of teardown changes no item outside the looked-up ids, so items without  *)
(* T, and items that get T after the lookup, stay as they are.              *)
C16_Step ==
    (argv'.command = "teardown" /\ run' = run)
    => /\ \A id \in LookedUp' \ LookedUp :
             id \in Ids /\ ws[id].exists /\ HasTag(ws[id], options.tag)
       /\ (pc \notin {"findTaggedEntries", "findTaggedAssets"}) => LookedUp' = LookedUp
       /\ \A k \in 1..Len(pending') :
             /\ pending'[k].op \in {"entry.delete", "asset.delete"}
                   => pending'[k].id \in LookedUp'
             /\ pending'[k].op = "bulk.unpublish"
                   => Range(pending'[k].items) \subseteq LookedUp'
             /\ pending'[k].op \in {"entry.getMany", "asset.getMany", "bulk.unpublish",
                                     "entry.delete", "asset.delete"}
       /\ \A id \in Ids : ws'[id] # ws[id] => id \in LookedUp

C16_TeardownFrame == [][C16_Step]_vars

\* a teardown has finished and deleted what it looked up; an entry that got
\* the tag after the lookup and an item with another tag are still there
C16_Witness ==
    /\ argv.command = "teardown" /\ outcome = "finished"
    /\ LookedUp # {}
    /\ \A id \in LookedUp : ~ws[id].exists
    /\ \E id \in Others(ws) :
          HasTag(ws[id], options.tag) /\ ws[id].exists /\ ws[id].published
    /\ \E id \in Ids \ Others(ws) :
          ~HasTag(ws[id], options.tag) /\ ws[id].exists /\ ws[id].published

----------------------------------------------------------------------------
(* C17: how many requests are in flight at the same time.                   *)
AssetOps == {"asset.create", "asset.update", "asset.process", "asset.delete"}

EntryOps == {"entry.create", "entry.delete"}

InFlightOf(ops) == {k \in 1..Len(pending) : pending[k].op \in ops}

\* C17 as claimed: never more requests in flight than one run has items, ten
\* for assets and twenty for entries, in teardown as in setup
C17_BoundedByOneRun ==
    /\ Cardinality(InFlightOf(AssetOps)) <= TripleCount
    /\ Cardinality(InFlightOf(EntryOps)) <= 2 * TripleCount

\* C17 as amended: setup has at most ten requests in flight (the processing
\* join, one request at a time otherwise); a delete phase of teardown has at
\* most as many in flight as its lookup returned ids, which is bounded by the
\* page of the lookup and not by the items of one run
C17_BoundedByLookup ==
    /\ argv.command = "setup"
       => /\ Len(pending) <= TripleCount
          /\ pc # "processAssets" => Len(pending) <= 1
    /\ argv.command = "teardown"
       => /\ Len(generatedEntries) <= PageLimit
          /\ Len(generatedAssets) <= PageLimit
          /\ pc = "deleteEntries" => Len(pending) <= Len(generatedEntries)
          /\ pc = "deleteAssets" => Len(pending) <= Len(generatedAssets)
          /\ pc \notin {"deleteEntries", "deleteAssets"} => Len(pending) <= 1

\* a full page of entry deletes is in flight
C17_Witness ==
    /\ argv.command = "teardown" /\ pc = "deleteEntries"
    /\ Cardinality(InFlightOf(EntryOps)) = PageLimit

----------------------------------------------------------------------------
(* C18: deleteEntries(ids) unpublishes the entries and then deletes them:   *)
(* when the call has settled, every entry it was given, published or not    *)
(* beforehand, is unpublished and deleted.                                  *)
C18_DeleteUnpublishesFirst ==
    (sent["entry.delete"] > 0 /\ outcome \in {"finished", "failed"})
    => \A id \in Range(generatedEntries) : ~ws[id].published /\ ~ws[id].exists

----------------------------------------------------------------------------
(* C19: the command line's option values reach the workflows: the tag used  *)
(* by setup and teardown is the word given after -t/--tag, or 'generated'   *)
(* when the option is absent; the locale used by setup is the word given    *)
(* after -l/--locale, or 'en-US' when it is absent.                         *)
\* the value the user means by an option
Meant(given, default) == IF given = NoOpt THEN default ELSE given

C19_OptionsPassedThrough ==
    argv.command \in {"setup", "teardown"}
    => /\ options.tag = Meant(argv.tag, DEFAULT_TAG)
       /\ argv.command = "setup" => options.locale = Meant(argv.locale, DEFAULT_LOCALE)
       /\ \A k \in 1..Len(pending) :
             pending[k].op \in {"entry.create", "entry.getMany", "asset.getMany",
                                "asset.update"}
             => pending[k].tags = <<Meant(argv.tag, DEFAULT_TAG)>>

====
